---- MODULE Spec2Model ----
(***************************************************************************)
(* Time tracking service: the domain service (timetracking/service.go)     *)
(* over the record store (storage/storage.go, posgresql storage of         *)
(* main.go) and the two tables of the migration.                           *)
(*                                                                         *)
(* Every service call is a short sequence of store calls.  A store call    *)
(* (one SQL statement) is one atomic step; the steps of concurrent calls   *)
(* interleave freely.  A database cell is <<>> (SQL NULL) or <<v>>.         *)
(* Time is counted in ticks of half a second; Go's zero time.Time is 0 and *)
(* the clock starts after it.                                              *)
(***************************************************************************)
EXTENDS Integers, Sequences, FiniteSets, TLC

\* ------------------------------------------------------------- bounds ----
NumProcs == 2
MaxTime == 2
MaxCalls == 4

Procs == 1..NumProcs

\* ---------------------------------------------------------- constants ----
UserCollection == "users"
TaskCollection == "tasks"

NULL == <<>>
ZeroTime == 0
TicksPerSecond == 2

UserColumns ==
    {"id", "pasport_series", "pasport_number", "surname", "name", "patronymic", "address"}

TaskColumns ==
    {"id", "title", "description", "period_from", "period_to", "user_id", "cost", "work_from"}

Columns(collection) ==
    IF collection = UserCollection THEN UserColumns ELSE TaskColumns

EmptyMap == [k \in {} |-> NULL]

\* ------------------------------------------------------- record store ----
\* WHERE clause: the equality predicates of the filter, ANDed.
Matches(row, filter) ==
    \A k \in DOMAIN filter : row[k] = filter[k]

Min(a, b) == IF a < b THEN a ELSE b

\* Every order in which the store may return the rows of S (no ORDER BY).
Orders(S) ==
    {s \in [1..Cardinality(S) -> S] : \A i, j \in 1..Cardinality(S) : i # j => s[i] # s[j]}

\* Variant: the offset is ignored.
PageFromStart(s, limit, offset) ==
    SubSeq(s, 1, IF limit = 0 THEN Len(s) ELSE Min(Len(s), limit))

\* LIMIT limit OFFSET offset; goqu's Limit(0) clears the limit.
Page(s, limit, offset) ==
    SubSeq(s, offset + 1, IF limit = 0 THEN Len(s) ELSE Min(Len(s), offset + limit))

\* The row sequences a cursor of Select may deliver.
Select(d, collection, filter, limit, offset) ==
    {Page(s, limit, offset) : s \in Orders({r \in d[collection] : Matches(r, filter)})}

Assign(row, update) ==
    [k \in DOMAIN row |-> IF k \in DOMAIN update THEN update[k] ELSE row[k]]

\* Variant: only the matching row with the least id is assigned.
UpdateFirst(d, collection, filter, update) ==
    [d EXCEPT ![collection] =
        {IF Matches(r, filter) /\ \A o \in @ : Matches(o, filter) => o["id"][1] >= r["id"][1]
         THEN Assign(r, update) ELSE r : r \in @}]

Update(d, collection, filter, update) ==
    [d EXCEPT ![collection] =
        {IF Matches(r, filter) THEN Assign(r, update) ELSE r : r \in @}]

NewRow(collection, id, data) ==
    [k \in Columns(collection) |->
        IF k = "id" THEN <<id>> ELSE IF k \in DOMAIN data THEN data[k] ELSE NULL]

Insert(d, collection, id, data) ==
    [d EXCEPT ![collection] = @ \cup {NewRow(collection, id, data)}]

\* Variant: deleting a user also closes the sessions of that user's tasks.
DeleteCascade(d, collection, id) ==
    [c \in DOMAIN d |->
        IF c = collection THEN {r \in d[c] : r["id"] # <<id>>}
        ELSE {IF r["user_id"] = <<id>> THEN [r EXCEPT !["work_from"] = NULL] ELSE r : r \in d[c]}]

Delete(d, collection, id) ==
    [d EXCEPT ![collection] = {r \in @ : r["id"] # <<id>>}]

\* ----------------------------------------------------- entity mapping ----
\* A field of a record holds NULL, <<v>>: a value v of the Go type in which
\* the field is read (what pgx delivers for the column: int32, int64, string,
\* time.Time), or <<v, t>>: a value of another dynamic type t.
\* Variant: the value is taken whatever its dynamic type.
getAnyType(fields, name, zero) ==
    IF name \in DOMAIN fields /\ fields[name] # NULL THEN Head(fields[name]) ELSE zero

\* fields[name].(T) with the comma-ok form: the value when the key is there
\* and holds a T, the zero value of T otherwise.
get(fields, name, zero) ==
    IF name \in DOMAIN fields /\ Len(fields[name]) = 1 THEN fields[name][1] ELSE zero

User(record) ==
    [Id            |-> get(record, "id", 0),
     PasportSeries |-> get(record, "pasport_series", ""),
     PasportNumber |-> get(record, "pasport_number", ""),
     Surname       |-> get(record, "surname", ""),
     Name          |-> get(record, "name", ""),
     Patronymic    |-> get(record, "patronymic", ""),
     Address       |-> get(record, "address", "")]

Task(record) ==
    [Id          |-> get(record, "id", 0),
     Title       |-> get(record, "title", ""),
     Description |-> get(record, "description", ""),
     PeriodFrom  |-> get(record, "period_from", ZeroTime),
     PeriodTo    |-> get(record, "period_to", ZeroTime),
     UserId      |-> get(record, "user_id", 0),
     Cost        |-> get(record, "cost", 0),
     WorkFrom    |-> get(record, "work_from", ZeroTime)]

\* The results FindUsersByFilter may return when the store works.
FindUsersByFilter(d, filter, limit, offset) ==
    {[i \in 1..Len(rs) |-> User(rs[i])] : rs \in Select(d, UserCollection, filter, limit, offset)}

FindTasksByFilter(d, filter, limit, offset) ==
    {[i \in 1..Len(rs) |-> Task(rs[i])] : rs \in Select(d, TaskCollection, filter, limit, offset)}

PasportFilter(pasportSeries, pasportNumber) ==
    [pasport_series |-> <<pasportSeries>>, pasport_number |-> <<pasportNumber>>]

IdFilter(taskId) ==
    [id |-> <<taskId>>]

\* --------------------------------------------------------------- state ----
VARIABLES
    db,          \* collection name -> set of rows
    serial,      \* collection name -> next value of its id sequence
    clock,       \* the wall clock, in ticks
    calls,       \* number of service calls started so far
    pc,          \* per call slot: "idle" or the store call it is about to make
    call,        \* per call slot: the operation and its arguments
    user,        \* per call slot: local `user` ([]*User)
    task,        \* per call slot: local `task` ([]*Task)
    updateData,  \* per call slot: local `updateData`
    ret,         \* per call slot: the last completed call and what it returned
    reader,      \* the cursor (recordReader) a client of the store holds
    active       \* task id -> the time (ticks) the task has spent in sessions

vars == <<db, serial, clock, calls, pc, call, user, task, updateData, ret, reader, active>>

\* ------------------------------------------------------ inputs of calls ----
SeriesInputs == {"AA", "BB"}
NumberInputs == {"1"}
TaskIdInputs == {1, 2}
InfoInputs ==
    {[surname |-> <<"Ivanov">>],
     [pasport_series |-> <<"AA">>, name |-> <<"Ivan">>]}
\* (filter, limit, offset) of the list operations.
FindUsersInputs ==
    {<<EmptyMap, 1, 1>>, <<[pasport_series |-> <<"AA">>], 0, 0>>}
FindTasksInputs ==
    {<<EmptyMap, 0, 0>>, <<[id |-> <<1>>], 1, 1>>}
RangeInputs == {<<1, 1>>, <<3, 5>>}

NoCall ==
    [op |-> "none", pasportSeries |-> "", pasportNumber |-> "", taskId |-> 0,
     info |-> EmptyMap, limit |-> 0, offset |-> 0, begin |-> ZeroTime, end |-> ZeroTime]

PasportCalls(op) ==
    {[NoCall EXCEPT !.op = op, !.pasportSeries = s, !.pasportNumber = n] :
        s \in SeriesInputs, n \in NumberInputs}

Calls ==
    PasportCalls("CreateUser") \cup PasportCalls("DeleteUser")
    \cup {[c EXCEPT !.info = i] : c \in PasportCalls("UpdateInfoUser"), i \in InfoInputs}
    \cup {[c EXCEPT !.taskId = t] : c \in PasportCalls("BeginTaskForUser"), t \in TaskIdInputs}
    \cup {[c EXCEPT !.taskId = t] : c \in PasportCalls("EndTaskForUser"), t \in TaskIdInputs}
    \cup {[c EXCEPT !.begin = r[1], !.end = r[2]] :
            c \in PasportCalls("CalculateCostByUser"), r \in RangeInputs}
    \cup {[NoCall EXCEPT !.op = "FindUsersByFilter", !.info = g[1], !.limit = g[2], !.offset = g[3]] :
            g \in FindUsersInputs}
    \cup {[NoCall EXCEPT !.op = "FindTasksByFilter", !.info = g[1], !.limit = g[2], !.offset = g[3]] :
            g \in FindTasksInputs}

\* The operations that start by resolving the user of a passport.
ResolvesUser(op) ==
    op \in {"CreateUser", "DeleteUser", "UpdateInfoUser", "BeginTaskForUser",
            "EndTaskForUser", "CalculateCostByUser"}

NoRet == [call |-> NoCall, err |-> "none", val |-> <<>>, status |-> 0]

\* No cursor is held: rows of the result still to deliver, values of the
\* current row (<<>> before the first row), closed or not, and what the
\* last call on the cursor returned.
NoReader ==
    [held |-> FALSE, rows |-> <<>>, values |-> <<>>, closed |-> FALSE,
     last |-> [op |-> "none", ok |-> FALSE, err |-> "nil", record |-> <<>>]]

\* No task of d has spent any time in a session yet.
NoSessions(d) ==
    [i \in {r["id"][1] : r \in d[TaskCollection]} |-> 0]

\* -------------------------------------------------------- initial state ----
InitialTasks ==
    {[id |-> <<1>>, title |-> <<"t1">>, description |-> <<"d1">>,
      period_from |-> <<2>>, period_to |-> <<3>>,
      user_id |-> NULL, cost |-> <<0>>, work_from |-> NULL]}

\* A user made by an earlier CreateUser("AA", "1").
InitialUsers ==
    {[id |-> <<1>>, pasport_series |-> <<"AA">>, pasport_number |-> <<"1">>,
      surname |-> NULL, name |-> NULL, patronymic |-> NULL, address |-> NULL]}

Init ==
    /\ db = [c \in {UserCollection, TaskCollection} |->
                IF c = TaskCollection THEN InitialTasks ELSE InitialUsers]
    /\ serial = [c \in {UserCollection, TaskCollection} |->
                IF c = TaskCollection THEN 2 ELSE 2]
    /\ clock = 1
    /\ calls = 0
    /\ pc = [p \in Procs |-> "idle"]
    /\ call = [p \in Procs |-> NoCall]
    /\ user = [p \in Procs |-> <<>>]
    /\ task = [p \in Procs |-> <<>>]
    /\ updateData = [p \in Procs |-> EmptyMap]
    /\ ret = [p \in Procs |-> NoRet]
    /\ reader = NoReader
    /\ active = NoSessions(db)

\* ------------------------------------------------ errors and statuses ----
\* errors.New("timetracking: storage error")
ErrStorage == "timetracking: storage error"

\* The error of a store call that failed, e.g.
\* fmt.Errorf("posgresql: select failed: %w", err).
StoreError == "posgresql: failed"

\* errors.Join(a, b): an error that wraps both; its text is the two texts
\* on two lines.
Join(a, b) ==
    a \o "\n" \o b

\* &InternalError{"timetracking: internal server error"}
ErrInternal == "timetracking: internal server error"

\* The errors that err wraps (Unwrap() []error of a joined error).
Unwrap(err) ==
    IF err = Join(ErrStorage, StoreError) THEN {ErrStorage, StoreError} ELSE {}

\* errors.Is / errors.As on the errors of this program: err or an error it
\* wraps is the target.
ErrorsIs(err, target) ==
    err = target \/ target \in Unwrap(err)

\* The texts of the two run-time panics of the service.
PanicIndex == "panic: index out of range"
PanicTarget == "panic: errors: *target must be interface or implement error"

StatusOK == 200
StatusBadRequest == 400
StatusInternalServerError == 500

\* The status a handler of handlers.go answers with after the service
\* returned err: 200 on nil, 500 if errors.As(err, &ErrInternal), else 400;
\* 0 stands for no answer, the handler having panicked.
HandlerStatus(err) ==
    IF err \in {PanicIndex, PanicTarget} THEN 0
    ELSE IF err = "nil" THEN StatusOK
    ELSE IF ErrorsIs(err, ErrInternal) THEN StatusInternalServerError
    ELSE StatusBadRequest

\* errors.Is(err, &InternalError{}): the target is a pointer made for this
\* comparison, no error returned by the service is that pointer or has an Is
\* method.
IsNewInternalError(err) ==
    ErrorsIs(err, "&InternalError{}")

\* The status sendResponseOrError answers with.
sendResponseOrError(err) ==
    IF err = "nil" THEN StatusOK
    ELSE IF IsNewInternalError(err) THEN StatusInternalServerError
    ELSE StatusBadRequest

\* ---------------------------------------------------- steps of a call ----
\* The call of slot p moves on to its next store call.
Goto(p, label) ==
    /\ pc' = [pc EXCEPT ![p] = label]
    /\ UNCHANGED <<call, ret, reader, active>>

\* The call of slot p returns (err, val) to its caller; its locals die.
Return(p, err, val) ==
    /\ pc' = [pc EXCEPT ![p] = "idle"]
    /\ ret' = [ret EXCEPT ![p] = [call |-> call[p], err |-> err, val |-> val,
                                status |-> HandlerStatus(err)]]
    /\ call' = [call EXCEPT ![p] = NoCall]
    /\ user' = [user EXCEPT ![p] = <<>>]
    /\ task' = [task EXCEPT ![p] = <<>>]
    /\ updateData' = [updateData EXCEPT ![p] = EmptyMap]
    /\ UNCHANGED <<reader, active>>

\* errors.New("timetracking: user not found")
ErrUserNotFound == "timetracking: user not found"

\* errors.New("timetracking: task not found")
ErrTaskNotFound == "timetracking: task not found"

\* user[0] / task[0] on an empty slice: a run-time panic, nothing is returned.
Panic(p) ==
    Return(p, PanicIndex, <<>>)

\* A session of task i is under way: the row has its work_from, or a
\* BeginTaskForUser call has taken the clock reading it is about to store.
InSession(i) ==
    \/ \E r \in db[TaskCollection] :
            r["id"] = <<i>> /\ "work_from" \in DOMAIN r /\ r["work_from"] # NULL
    \/ \E p \in Procs :
            call[p].op = "BeginTaskForUser" /\ call[p].taskId = i /\ pc[p] = "Update"

\* The tick that passes counts for the tasks that are in a session.
Elapse ==
    [i \in DOMAIN active |-> IF InSession(i) THEN active[i] + 1 ELSE active[i]]

Tick ==
    /\ clock < MaxTime
    /\ clock' = clock + 1
    /\ active' = Elapse
    /\ UNCHANGED <<db, serial, calls, pc, call, user, task, updateData, ret, reader>>

\* A request arrives: a service method is invoked with some arguments.
Start(p) ==
    /\ pc[p] = "idle"
    /\ calls < MaxCalls
    /\ calls' = calls + 1
    /\ \E c \in Calls :
        /\ call' = [call EXCEPT ![p] = c]
        /\ pc' = [pc EXCEPT ![p] = IF ResolvesUser(c.op) THEN "FindUser" ELSE "Select"]
    /\ UNCHANGED <<db, serial, clock, user, task, updateData, reader, active>>

\* The caller of slot p has dropped the previous result.
Invoke(p) ==
    /\ Start(p)
    /\ ret' = [ret EXCEPT ![p] = NoRet]

\* The one sequential client still holds the result of its previous call.
InvokeNext ==
    /\ Start(1)
    /\ UNCHANGED ret

\* This call's passport filter (service.go: filter := map[string]any{...}).
CallFilter(p) ==
    PasportFilter(call[p].pasportSeries, call[p].pasportNumber)

\* ---------------------------------------------------------- CreateUser ----
CreateUserData(pasportSeries, pasportNumber) ==
    [pasport_series |-> <<pasportSeries>>, pasport_number |-> <<pasportNumber>>]

CreateUser(p) ==
    /\ call[p].op = "CreateUser"
    /\ \/ /\ pc[p] = "FindUser"
          /\ \E us \in FindUsersByFilter(db, CallFilter(p), 1, 0) :
                IF Len(us) > 0
                THEN Return(p, "nil", <<us[1].Id>>)
                ELSE /\ user' = [user EXCEPT ![p] = us]
                     /\ Goto(p, "Insert")
                     /\ UNCHANGED <<task, updateData>>
          /\ UNCHANGED <<db, serial, clock, calls>>
       \/ /\ pc[p] = "Insert"
          /\ db' = Insert(db, UserCollection, serial[UserCollection],
                          CreateUserData(call[p].pasportSeries, call[p].pasportNumber))
          /\ serial' = [serial EXCEPT ![UserCollection] = @ + 1]
          /\ Return(p, "nil", <<serial[UserCollection]>>)
          /\ UNCHANGED <<clock, calls>>

\* ---------------------------------------------------------- DeleteUser ----
DeleteUser(p) ==
    /\ call[p].op = "DeleteUser"
    /\ \/ /\ pc[p] = "FindUser"
          /\ \E us \in FindUsersByFilter(db, CallFilter(p), 1, 0) :
                IF Len(us) = 0
                THEN Panic(p)
                ELSE /\ user' = [user EXCEPT ![p] = us]
                     /\ Goto(p, "Delete")
                     /\ UNCHANGED <<task, updateData>>
          /\ UNCHANGED <<db, serial, clock, calls>>
       \/ /\ pc[p] = "Delete"
          /\ db' = Delete(db, UserCollection, user[p][1].Id)
          /\ Return(p, "nil", <<>>)
          /\ UNCHANGED <<serial, clock, calls>>

\* ------------------------------------------------------ UpdateInfoUser ----
UpdateInfoUser(p) ==
    /\ call[p].op = "UpdateInfoUser"
    /\ \/ /\ pc[p] = "FindUser"
          /\ \E us \in FindUsersByFilter(db, CallFilter(p), 1, 0) :
                IF Len(us) = 0
                THEN Panic(p)
                ELSE /\ user' = [user EXCEPT ![p] = us]
                     /\ Goto(p, "Update")
                     /\ UNCHANGED <<task, updateData>>
          /\ UNCHANGED <<db, serial, clock, calls>>
       \/ /\ pc[p] = "Update"
          /\ db' = Update(db, UserCollection, CallFilter(p), call[p].info)
          /\ Return(p, "nil", <<>>)
          /\ UNCHANGED <<serial, clock, calls>>

\* ---------------------------------------------------- BeginTaskForUser ----
\* Variant: the started check never fires.
StartedUnchecked(t) ==
    FALSE

\* task[0].WorkFrom != (time.Time{})
AlreadyStarted(t) ==
    t.WorkFrom # ZeroTime

\* Variant: the write leaves user_id alone.
BeginUpdateDataKeepingUser(now, u) ==
    [work_from |-> <<now>>]

BeginUpdateData(now, u) ==
    [work_from |-> <<now>>, user_id |-> <<u.Id>>]

\* Variant: the write is conditional on the task still being Idle.
BeginWriteIfIdle(d, taskId, data) ==
    Update(d, TaskCollection, [id |-> <<taskId>>, work_from |-> NULL], data)

\* s.storage.Update(TaskCollection, filter, updateData)
BeginWrite(d, taskId, data) ==
    Update(d, TaskCollection, IdFilter(taskId), data)

BeginTaskForUser(p) ==
    /\ call[p].op = "BeginTaskForUser"
    /\ \/ /\ pc[p] = "FindUser"
          /\ \E us \in FindUsersByFilter(db, CallFilter(p), 1, 0) :
                IF Len(us) = 0
                THEN Panic(p)
                ELSE /\ user' = [user EXCEPT ![p] = us]
                     /\ Goto(p, "FindTask")
                     /\ UNCHANGED <<task, updateData>>
          /\ UNCHANGED <<db, serial, clock, calls>>
       \/ /\ pc[p] = "FindTask"
          /\ \E ts \in FindTasksByFilter(db, IdFilter(call[p].taskId), 1, 0) :
                IF Len(ts) = 0
                THEN Panic(p)
                ELSE IF AlreadyStarted(ts[1])
                THEN Return(p, "task already started", <<>>)
                ELSE /\ task' = [task EXCEPT ![p] = ts]
                     /\ Goto(p, "Now")
                     /\ UNCHANGED <<user, updateData>>
          /\ UNCHANGED <<db, serial, clock, calls>>
       \/ /\ pc[p] = "Now"
          /\ updateData' = [updateData EXCEPT ![p] = BeginUpdateData(clock, user[p][1])]
          /\ Goto(p, "Update")
          /\ UNCHANGED <<db, serial, clock, calls, user, task>>
       \/ /\ pc[p] = "Update"
          /\ db' = BeginWrite(db, call[p].taskId, updateData[p])
          /\ Return(p, "nil", <<>>)
          /\ UNCHANGED <<serial, clock, calls>>

\* ------------------------------------------------------ EndTaskForUser ----
\* Variant: the not-started check never fires.
IdleUnchecked(t) ==
    FALSE

\* task[0].WorkFrom == (time.Time{})
NotStarted(t) ==
    t.WorkFrom = ZeroTime

\* Variant: closing a session also forgets who held it.
EndUpdateDataClearingUser(now, t) ==
    [cost |-> <<t.Cost + (now - t.WorkFrom)>>, work_from |-> NULL, user_id |-> NULL]

\* Variant: the time of a session is cut to whole seconds before it is added.
EndUpdateDataWholeSeconds(now, t) ==
    [cost |-> <<t.Cost + ((now - t.WorkFrom) \div TicksPerSecond) * TicksPerSecond>>,
     work_from |-> NULL]

\* Variant: the write stores the last session instead of the sum.
EndUpdateDataLastSession(now, t) ==
    [cost |-> <<now - t.WorkFrom>>, work_from |-> NULL]

EndUpdateData(now, t) ==
    [cost |-> <<t.Cost + (now - t.WorkFrom)>>, work_from |-> NULL]

EndWrite(d, taskId, data) ==
    Update(d, TaskCollection, IdFilter(taskId), data)

EndTaskForUser(p) ==
    /\ call[p].op = "EndTaskForUser"
    /\ \/ /\ pc[p] = "FindUser"
          /\ \E us \in FindUsersByFilter(db, CallFilter(p), 1, 0) :
                IF Len(us) = 0
                THEN Panic(p)
                ELSE /\ user' = [user EXCEPT ![p] = us]
                     /\ Goto(p, "FindTask")
                     /\ UNCHANGED <<task, updateData>>
          /\ UNCHANGED <<db, serial, clock, calls>>
       \/ /\ pc[p] = "FindTask"
          /\ \E ts \in FindTasksByFilter(db, IdFilter(call[p].taskId), 1, 0) :
                IF Len(ts) = 0
                THEN Return(p, "task not found", <<>>)
                ELSE IF NotStarted(ts[1])
                THEN Return(p, "task not started", <<>>)
                ELSE /\ task' = [task EXCEPT ![p] = ts]
                     /\ Goto(p, "Now")
                     /\ UNCHANGED <<user, updateData>>
          /\ UNCHANGED <<db, serial, clock, calls>>
       \/ /\ pc[p] = "Now"
          /\ updateData' = [updateData EXCEPT ![p] = EndUpdateData(clock, task[p][1])]
          /\ Goto(p, "Update")
          /\ UNCHANGED <<db, serial, clock, calls, user, task>>
       \/ /\ pc[p] = "Update"
          /\ db' = EndWrite(db, call[p].taskId, updateData[p])
          /\ Return(p, "nil", <<>>)
          /\ UNCHANGED <<serial, clock, calls>>

\* ------------------------------------------------- CalculateCostByUser ----
\* A Go string is the sequence of its bytes: '-' 45, '0'..'9' 48..57,
\* 'h' 104, 'm' 109, 's' 115.
RECURSIVE Digits(_)
Digits(n) ==
    IF n < 10 THEN <<48 + n>> ELSE Digits(n \div 10) \o <<48 + (n % 10)>>

\* time.Duration.Truncate(time.Second): towards zero, to a whole second.
TruncateSecond(d) ==
    IF d >= 0 THEN (d \div TicksPerSecond) * TicksPerSecond
    ELSE -(((-d) \div TicksPerSecond) * TicksPerSecond)

\* time.Duration.String of a whole number of seconds.
SecondsString(n) ==
    IF n >= 3600
    THEN Digits(n \div 3600) \o <<104>> \o Digits((n % 3600) \div 60) \o <<109>>
            \o Digits(n % 60) \o <<115>>
    ELSE IF n >= 60
    THEN Digits(n \div 60) \o <<109>> \o Digits(n % 60) \o <<115>>
    ELSE Digits(n) \o <<115>>

DurationString(d) ==
    IF d < 0 THEN <<45>> \o SecondsString((-d) \div TicksPerSecond)
    ELSE SecondsString(d \div TicksPerSecond)

\* fmt.Sprintf("%d-%v", record.Id, cost.Truncate(time.Second))
CostEntry(record) ==
    Digits(record["id"][1]) \o <<45>> \o DurationString(TruncateSecond(get(record, "cost", 0)))

\* strings.Split(s, "-")[1]
RECURSIVE UpToDash(_)
UpToDash(s) ==
    IF s = <<>> \/ Head(s) = 45 THEN <<>> ELSE <<Head(s)>> \o UpToDash(Tail(s))

RECURSIVE AfterDash(_)
AfterDash(s) ==
    IF s = <<>> THEN <<>> ELSE IF Head(s) = 45 THEN Tail(s) ELSE AfterDash(Tail(s))

SplitDash1(s) ==
    UpToDash(AfterDash(s))

\* a > b on Go strings (bytewise).
RECURSIVE StringGreater(_, _)
StringGreater(a, b) ==
    IF a = <<>> THEN FALSE
    ELSE IF b = <<>> THEN TRUE
    ELSE IF Head(a) # Head(b) THEN Head(a) > Head(b)
    ELSE StringGreater(Tail(a), Tail(b))

\* Variant: the order of the sort is reversed.
CostLessAscending(x, y) ==
    StringGreater(SplitDash1(y), SplitDash1(x))

\* less of the sort.Slice call.
CostLess(x, y) ==
    StringGreater(SplitDash1(x), SplitDash1(y))

\* periodTo.Before(begin) || periodFrom.After(end): the row is skipped.
\* Variant: a window that only touches an end of the range is skipped too.
OutsideRangeOpen(record, begin, end) ==
    \/ get(record, "period_to", ZeroTime) <= begin
    \/ get(record, "period_from", ZeroTime) >= end

OutsideRange(record, begin, end) ==
    \/ get(record, "period_to", ZeroTime) < begin
    \/ get(record, "period_from", ZeroTime) > end

\* The slices sort.Slice may leave: the entries in an order with no inversion.
Sorted(entries) ==
    {s \in Orders(entries) : \A i, j \in 1..Len(s) : i < j => ~CostLess(s[j], s[i])}

CalculateCosts(rows, begin, end) ==
    Sorted({CostEntry(r) : r \in {x \in rows : ~OutsideRange(x, begin, end)}})

CalculateCostByUser(p) ==
    /\ call[p].op = "CalculateCostByUser"
    /\ \/ /\ pc[p] = "FindUser"
          /\ \E us \in FindUsersByFilter(db, CallFilter(p), 1, 0) :
                IF Len(us) = 0
                THEN Panic(p)
                ELSE /\ user' = [user EXCEPT ![p] = us]
                     /\ Goto(p, "Select")
                     /\ UNCHANGED <<task, updateData>>
          /\ UNCHANGED <<db, serial, clock, calls>>
       \/ /\ pc[p] = "Select"
          /\ \E rs \in Select(db, TaskCollection, [user_id |-> <<user[p][1].Id>>], 0, 0) :
                \E costs \in CalculateCosts({rs[i] : i \in 1..Len(rs)}, call[p].begin, call[p].end) :
                    Return(p, "nil", costs)
          /\ UNCHANGED <<db, serial, clock, calls>>

\* ------------------------------- FindUsersByFilter / FindTasksByFilter ----
FindUsers(p) ==
    /\ call[p].op = "FindUsersByFilter"
    /\ pc[p] = "Select"
    /\ \E us \in FindUsersByFilter(db, call[p].info, call[p].limit, call[p].offset) :
            Return(p, "nil", us)
    /\ UNCHANGED <<db, serial, clock, calls>>

FindTasks(p) ==
    /\ call[p].op = "FindTasksByFilter"
    /\ pc[p] = "Select"
    /\ \E ts \in FindTasksByFilter(db, call[p].info, call[p].limit, call[p].offset) :
            Return(p, "nil", ts)
    /\ UNCHANGED <<db, serial, clock, calls>>

\* ------------------------------------------------------ specifications ----
Step(p) ==
    \/ CreateUser(p)
    \/ DeleteUser(p)
    \/ UpdateInfoUser(p)
    \/ BeginTaskForUser(p)
    \/ EndTaskForUser(p)
    \/ CalculateCostByUser(p)
    \/ FindUsers(p)
    \/ FindTasks(p)

\* Requests are served in parallel: the store calls of the calls interleave.
Next ==
    \/ Tick
    \/ \E p \in Procs : Invoke(p) \/ Step(p)

Spec == Init /\ [][Next]_vars

\* One client that makes its calls one after another.
NextSeq ==
    \/ Tick
    \/ InvokeNext
    \/ Step(1)

SpecSeq == Init /\ [][NextSeq]_vars

\* ------------------------------------------------------ HandlerGetUser ----
\* The single-user lookup by passport (GET /info): query parameters may be
\* absent, which r.URL.Query().Get turns into "".
GetUserCalls ==
    {[NoCall EXCEPT !.op = "HandlerGetUser", !.pasportSeries = s, !.pasportNumber = n] :
        s \in SeriesInputs \cup {""}, n \in NumberInputs \cup {""}}

\* A GET /info request arrives.
StartGetUser(p) ==
    /\ pc[p] = "idle"
    /\ calls < MaxCalls
    /\ calls' = calls + 1
    /\ \E c \in GetUserCalls : call' = [call EXCEPT ![p] = c]
    /\ pc' = [pc EXCEPT ![p] = "Check"]
    /\ UNCHANGED <<db, serial, clock, user, task, updateData, ret, reader, active>>

\* Variant: the empty passport is not refused.
PasportUnchecked(pasportSeries, pasportNumber) ==
    FALSE

\* pasportSeries == "" || pasportNumber == ""
InvalidPasport(pasportSeries, pasportNumber) ==
    pasportSeries = "" \/ pasportNumber = ""

HandlerGetUser(p) ==
    /\ call[p].op = "HandlerGetUser"
    /\ \/ /\ pc[p] = "Check"
          /\ IF InvalidPasport(call[p].pasportSeries, call[p].pasportNumber)
             THEN Return(p, "invalid pasport number", <<>>)
             ELSE /\ Goto(p, "FindUser")
                  /\ UNCHANGED <<user, task, updateData>>
          /\ UNCHANGED <<db, serial, clock, calls>>
       \/ /\ pc[p] = "FindUser"
          /\ \E us \in FindUsersByFilter(db, CallFilter(p), 1, 0) :
                IF Len(us) = 0
                THEN Return(p, "user not found", <<>>)
                ELSE Return(p, "nil", <<us[1]>>)
          /\ UNCHANGED <<db, serial, clock, calls>>

\* One client that calls the service methods and GET /info, one call after
\* another.
NextApi ==
    \/ Tick
    \/ InvokeNext
    \/ Step(1)
    \/ StartGetUser(1)
    \/ HandlerGetUser(1)

SpecApi == Init /\ [][NextApi]_vars

\* ------------------------------------- CalculateCostByUser on many tasks ----
\* Task rows the store may hold when CalculateCostByUser is called: windows
\* [10,20], [25,30], [5,12]; costs of 9 s, 10 s and 1 min; a task of another
\* user; a task whose cost is NULL.
CalcTaskRow(id, from, to, userId, cost) ==
    [id |-> <<id>>, title |-> <<"t">>, description |-> NULL,
     period_from |-> <<from>>, period_to |-> <<to>>,
     user_id |-> <<userId>>, cost |-> cost, work_from |-> NULL]

CalcTasks ==
    {CalcTaskRow(1, 10, 20, 1, <<9 * TicksPerSecond>>),
     CalcTaskRow(2, 25, 30, 1, <<10 * TicksPerSecond>>),
     CalcTaskRow(3, 5, 12, 1, <<60 * TicksPerSecond + 1>>),
     CalcTaskRow(4, 11, 26, 2, <<3 * TicksPerSecond>>),
     CalcTaskRow(5, 26, 40, 1, NULL)}

CalcUsers ==
    InitialUsers \cup
    {[id |-> <<2>>, pasport_series |-> <<"BB">>, pasport_number |-> <<"1">>,
      surname |-> NULL, name |-> NULL, patronymic |-> NULL, address |-> NULL]}

CalcRanges == {<<11, 26>>, <<20, 25>>, <<21, 24>>, <<1, 50>>}

CalcCalls ==
    {[c EXCEPT !.begin = r[1], !.end = r[2]] :
        c \in PasportCalls("CalculateCostByUser"), r \in CalcRanges}

InitCalc ==
    /\ \E ts \in SUBSET CalcTasks :
        db = [c \in {UserCollection, TaskCollection} |->
                IF c = TaskCollection THEN ts ELSE CalcUsers]
    /\ serial = [c \in {UserCollection, TaskCollection} |->
                IF c = TaskCollection THEN 6 ELSE 3]
    /\ clock = 1
    /\ calls = 0
    /\ pc = [p \in Procs |-> "idle"]
    /\ call = [p \in Procs |-> NoCall]
    /\ user = [p \in Procs |-> <<>>]
    /\ task = [p \in Procs |-> <<>>]
    /\ updateData = [p \in Procs |-> EmptyMap]
    /\ ret = [p \in Procs |-> NoRet]
    /\ reader = NoReader
    /\ active = NoSessions(db)

StartCalculate(p) ==
    /\ pc[p] = "idle"
    /\ calls < MaxCalls
    /\ calls' = calls + 1
    /\ \E c \in CalcCalls : call' = [call EXCEPT ![p] = c]
    /\ pc' = [pc EXCEPT ![p] = "FindUser"]
    /\ UNCHANGED <<db, serial, clock, user, task, updateData, ret, reader, active>>

NextCalc ==
    \/ StartCalculate(1)
    \/ CalculateCostByUser(1)

SpecCalc == InitCalc /\ [][NextCalc]_vars

\* -------------------------------------------------- failing store calls ----
\* errors.As(err, sql.ErrNoRows) with err # nil: the target is not a pointer
\* to an interface or to a type that implements error, so errors.As panics.
PanicAs(p) ==
    Return(p, PanicTarget, <<>>)

\* The store call that the call of slot p is about to make fails and has no
\* effect. After Select or a cursor Read the service asks
\* errors.As(err, sql.ErrNoRows); after Insert, Update and Delete it returns
\* errors.Join(ErrStorage, err).
StoreFails(p) ==
    /\ \/ /\ pc[p] \in {"FindUser", "FindTask", "Select"}
          /\ PanicAs(p)
       \/ /\ pc[p] \in {"Insert", "Update", "Delete"}
          /\ Return(p, Join(ErrStorage, StoreError), <<>>)
    /\ UNCHANGED <<db, serial, clock, calls>>

\* One client, one call after another, over a store whose calls may fail.
NextFault ==
    \/ NextApi
    \/ StoreFails(1)

SpecFault == Init /\ [][NextFault]_vars

\* ------------------------------------------- one connection for all calls ----
\* The labels at which a call is about to use the connection.
StoreCallLabels == {"FindUser", "FindTask", "Select", "Insert", "Update", "Delete"}

\* PosgresqlStorage holds one *pgx.Conn, which is not safe for concurrent
\* use, and no lock guards it. When the store call of slot p starts while
\* the store call of another slot is under way on the connection, the call
\* of p fails ("conn busy") and has no effect; the other call goes on.
ConnBusy(p) ==
    /\ \E q \in Procs \ {p} : pc[q] \in StoreCallLabels
    /\ StoreFails(p)

\* Concurrent calls over the one shared connection.
NextConn ==
    \/ Next
    \/ \E p \in Procs : ConnBusy(p)

SpecConn == Init /\ [][NextConn]_vars

\* ------------------------------ HandlerCreateUser / HandlerUpdateUser ----
\* A Go string that the handlers split is the sequence of its characters.
\* strings.Split(s, " "): the pieces between the spaces, empty ones kept.
RECURSIVE UpToSpace(_)
UpToSpace(s) ==
    IF s = <<>> \/ Head(s) = " " THEN <<>> ELSE <<Head(s)>> \o UpToSpace(Tail(s))

RECURSIVE Split(_)
Split(s) ==
    IF \E i \in 1..Len(s) : s[i] = " "
    THEN <<UpToSpace(s)>> \o Split(SubSeq(s, Len(UpToSpace(s)) + 2, Len(s)))
    ELSE <<s>>

\* The string whose characters are cs.
RECURSIVE Str(_)
Str(cs) ==
    IF cs = <<>> THEN "" ELSE Head(cs) \o Str(Tail(cs))

\* len(seriesNumber) != 2 || seriesNumber[0] == "" || seriesNumber[1] == ""
InvalidSeriesNumber(seriesNumber) ==
    Len(seriesNumber) # 2 \/ seriesNumber[1] = <<>> \/ seriesNumber[2] = <<>>

\* Values of the JSON key "pasportNumber": "BB 1", " 1", "BB ", "BB",
\* "BB 1 2".
PasportTexts ==
    {<<"B", "B", " ", "1">>, <<" ", "1">>, <<"B", "B", " ">>, <<"B", "B">>,
     <<"B", "B", " ", "1", " ", "2">>}

\* Decoded bodies of POST /users; the key may be absent.
CreateBodies ==
    {[pasportNumber |-> s] : s \in PasportTexts} \cup {EmptyMap}

\* Decoded bodies of PUT /users: the passport of the user to update and the
\* fields to set, any JSON keys the client chose.
UpdateBodies ==
    {[pasportNumber |-> <<"A", "A", " ", "1">>, surname |-> <<"Ivanov">>],
     [pasportNumber |-> <<"A", "A", " ", "1">>, pasport_series |-> <<"BB">>],
     [pasportNumber |-> <<"B", "B", " ", "1">>, pasport_number |-> <<"">>, name |-> <<"Ivan">>],
     [pasportNumber |-> <<" ", "1">>, surname |-> <<"Ivanov">>],
     [surname |-> <<"Ivanov">>]}

\* data["pasportNumber"].(string) / the struct field of the decoded body:
\* "" when the key is absent.
BodyPasport(data) ==
    IF "pasportNumber" \in DOMAIN data THEN data["pasportNumber"] ELSE <<>>

\* delete(data, "pasportNumber")
DeleteKey(data, key) ==
    [k \in DOMAIN data \ {key} |-> data[k]]

\* The requests and direct calls of the service that create and update
\* users; the service methods are exported and take any strings.
HttpCalls ==
    {[NoCall EXCEPT !.op = "HandlerCreateUser", !.info = b] : b \in CreateBodies}
    \cup {[NoCall EXCEPT !.op = "HandlerUpdateUser", !.info = b] : b \in UpdateBodies}
    \cup {[NoCall EXCEPT !.op = "CreateUser", !.pasportSeries = s, !.pasportNumber = n] :
            s \in {"", "BB"}, n \in {"", "1"}}

StartHttp(p) ==
    /\ pc[p] = "idle"
    /\ calls < MaxCalls
    /\ calls' = calls + 1
    /\ \E c \in HttpCalls :
        /\ call' = [call EXCEPT ![p] = c]
        /\ pc' = [pc EXCEPT ![p] = IF c.op = "CreateUser" THEN "FindUser" ELSE "Parse"]
    /\ UNCHANGED <<db, serial, clock, user, task, updateData, ret, reader, active>>

\* From the decoded body to h.CreateUser(seriesNumber[0], seriesNumber[1]);
\* the steps of that call are those of CreateUser.
HandlerCreateUser(p) ==
    /\ call[p].op = "HandlerCreateUser"
    /\ pc[p] = "Parse"
    /\ LET seriesNumber == Split(BodyPasport(call[p].info)) IN
        IF InvalidSeriesNumber(seriesNumber)
        THEN Return(p, "invalid pasport number", <<>>)
        ELSE /\ call' = [call EXCEPT ![p] =
                    [NoCall EXCEPT !.op = "CreateUser",
                                   !.pasportSeries = Str(seriesNumber[1]),
                                   !.pasportNumber = Str(seriesNumber[2])]]
             /\ pc' = [pc EXCEPT ![p] = "FindUser"]
             /\ UNCHANGED <<user, task, updateData, ret, reader, active>>
    /\ UNCHANGED <<db, serial, clock, calls>>

\* From the decoded body to h.UpdateInfoUser(seriesNumber[0],
\* seriesNumber[1], data), data being the body without "pasportNumber".
HandlerUpdateUser(p) ==
    /\ call[p].op = "HandlerUpdateUser"
    /\ pc[p] = "Parse"
    /\ LET seriesNumber == Split(BodyPasport(call[p].info)) IN
        IF InvalidSeriesNumber(seriesNumber)
        THEN Return(p, "invalid pasport number", <<>>)
        ELSE /\ call' = [call EXCEPT ![p] =
                    [NoCall EXCEPT !.op = "UpdateInfoUser",
                                   !.pasportSeries = Str(seriesNumber[1]),
                                   !.pasportNumber = Str(seriesNumber[2]),
                                   !.info = DeleteKey(call[p].info, "pasportNumber")]]
             /\ pc' = [pc EXCEPT ![p] = "FindUser"]
             /\ UNCHANGED <<user, task, updateData, ret, reader, active>>
    /\ UNCHANGED <<db, serial, clock, calls>>

\* One client of POST /users, PUT /users and CreateUser, one call after
\* another.
NextHttp ==
    \/ StartHttp(1)
    \/ HandlerCreateUser(1)
    \/ HandlerUpdateUser(1)
    \/ CreateUser(1)
    \/ UpdateInfoUser(1)

SpecHttp == Init /\ [][NextHttp]_vars

\* ------------------------------------------- records of any record store ----
\* Records that an implementation of Storage may deliver: keys may be
\* missing and a field may hold NULL or a value of another dynamic type.
MapUserRecords ==
    InitialUsers \cup
    {[id |-> <<2>>, pasport_series |-> <<"BB">>, pasport_number |-> <<"1">>,
      surname |-> <<"Ivanov", "[]byte">>, name |-> NULL],
     [id |-> <<3, "int64">>, pasport_number |-> <<7, "int32">>,
      surname |-> <<"Petrov">>, address |-> <<"Lenina 1">>]}

MapTaskRecords ==
    {[id |-> <<1>>, title |-> <<"t1">>, description |-> <<"d1">>,
      period_from |-> <<2>>, period_to |-> <<3>>,
      user_id |-> <<1>>, cost |-> <<3>>, work_from |-> <<1>>],
     [id |-> <<2>>, title |-> NULL, description |-> NULL,
      period_from |-> NULL, period_to |-> NULL,
      user_id |-> NULL, cost |-> NULL, work_from |-> NULL],
     [id |-> <<3>>, title |-> <<"t3">>,
      user_id |-> <<1, "int64">>, cost |-> <<5, "int32">>],
     [id |-> <<4>>, period_to |-> <<3, "string">>,
      cost |-> <<4>>, work_from |-> <<1, "string">>]}

InitMap ==
    /\ \E us \in SUBSET MapUserRecords : \E ts \in SUBSET MapTaskRecords :
        db = [c \in {UserCollection, TaskCollection} |->
                IF c = TaskCollection THEN ts ELSE us]
    /\ serial = [c \in {UserCollection, TaskCollection} |-> 5]
    /\ clock = 1
    /\ calls = 0
    /\ pc = [p \in Procs |-> "idle"]
    /\ call = [p \in Procs |-> NoCall]
    /\ user = [p \in Procs |-> <<>>]
    /\ task = [p \in Procs |-> <<>>]
    /\ updateData = [p \in Procs |-> EmptyMap]
    /\ ret = [p \in Procs |-> NoRet]
    /\ reader = NoReader
    /\ active = NoSessions(db)

\* FindUsersByFilter / FindTasksByFilter of every record.
StartFind(p) ==
    /\ pc[p] = "idle"
    /\ calls < MaxCalls
    /\ calls' = calls + 1
    /\ \E op \in {"FindUsersByFilter", "FindTasksByFilter"} :
        call' = [call EXCEPT ![p] = [NoCall EXCEPT !.op = op]]
    /\ pc' = [pc EXCEPT ![p] = "Select"]
    /\ UNCHANGED <<db, serial, clock, user, task, updateData, ret, reader, active>>

NextMap ==
    \/ StartFind(1)
    \/ FindUsers(1)
    \/ FindTasks(1)

SpecMap == InitMap /\ [][NextMap]_vars

\* -------------------------------------------------------- recordReader ----
\* (filter, limit, offset) of the Select calls of a client of the store.
ReaderInputs ==
    {<<EmptyMap, 0, 0>>, <<[user_id |-> <<1>>], 2, 0>>, <<[id |-> <<9>>], 0, 0>>}

\* fmt.Errorf("posgresql: read failed: %w", err)
ReadError == "posgresql: read failed"

\* The last call on the cursor and what it returned.
Last(op, ok, err, record) ==
    [op |-> op, ok |-> ok, err |-> err, record |-> record]

\* PosgresqlStorage.Select on the tasks: &recordReader{rows: rows}.
SelectReader ==
    /\ calls < MaxCalls
    /\ calls' = calls + 1
    /\ \E g \in ReaderInputs : \E rs \in Select(db, TaskCollection, g[1], g[2], g[3]) :
        reader' = [held |-> TRUE, rows |-> rs, values |-> <<>>, closed |-> FALSE,
                   last |-> Last("Select", TRUE, "nil", <<>>)]
    /\ UNCHANGED <<db, serial, clock, pc, call, user, task, updateData, ret, active>>

\* recordReader.Next: rows.Next(), which takes the next row or, there being
\* none, closes the rows.
ReaderNext ==
    /\ reader.held
    /\ IF reader.closed
       THEN reader' = [reader EXCEPT !.last = Last("Next", FALSE, "nil", <<>>)]
       ELSE IF reader.rows # <<>>
       THEN reader' = [reader EXCEPT !.values = <<Head(reader.rows)>>,
                                     !.rows = Tail(reader.rows),
                                     !.last = Last("Next", TRUE, "nil", <<>>)]
       ELSE reader' = [reader EXCEPT !.closed = TRUE,
                                     !.last = Last("Next", FALSE, "nil", <<>>)]
    /\ UNCHANGED <<db, serial, clock, calls, pc, call, user, task, updateData, ret, active>>

\* recordReader.Read: rows.Values() and the Record made of them. The reader
\* keeps no note of what Next returned. On closed rows Values returns an
\* error. Before the first Next the rows have columns and no values yet:
\* pgx calls this an error of the caller and Values indexes the empty
\* value slice, a run-time panic, unless it reports an error.
ReaderRead ==
    /\ reader.held
    /\ IF reader.closed
       THEN reader' = [reader EXCEPT !.last = Last("Read", FALSE, ReadError, <<>>)]
       ELSE IF reader.values = <<>>
       THEN \E outcome \in {PanicIndex, ReadError} :
                reader' = [reader EXCEPT !.held = (outcome # PanicIndex),
                                         !.last = Last("Read", FALSE, outcome, <<>>)]
       ELSE reader' = [reader EXCEPT !.last =
                Last("Read", TRUE, "nil",
                     <<[Id |-> reader.values[1]["id"][1], Fields |-> reader.values[1]]>>)]
    /\ UNCHANGED <<db, serial, clock, calls, pc, call, user, task, updateData, ret, active>>

\* A client that selects tasks and calls Next and Read in any order.
NextReader ==
    \/ SelectReader
    \/ ReaderNext
    \/ ReaderRead

SpecReader == InitCalc /\ [][NextReader]_vars

\* ------------------------------------------------- sessions of one task ----
MaxSessionTime == 4
MaxSessionCalls == 5

\* The costs task 1 may have before its first session.
InitialCosts == {NULL, <<0>>, <<5>>}

SessionCalls ==
    {[c EXCEPT !.taskId = t] :
        c \in PasportCalls("BeginTaskForUser") \cup PasportCalls("EndTaskForUser"),
        t \in TaskIdInputs}

InitSessions ==
    /\ \E c0 \in InitialCosts :
        db = [c \in {UserCollection, TaskCollection} |->
                IF c = TaskCollection
                THEN {[t EXCEPT !["cost"] = c0] : t \in InitialTasks}
                ELSE InitialUsers]
    /\ serial = [c \in {UserCollection, TaskCollection} |-> 2]
    /\ clock = 1
    /\ calls = 0
    /\ pc = [p \in Procs |-> "idle"]
    /\ call = [p \in Procs |-> NoCall]
    /\ user = [p \in Procs |-> <<>>]
    /\ task = [p \in Procs |-> <<>>]
    /\ updateData = [p \in Procs |-> EmptyMap]
    /\ ret = [p \in Procs |-> NoRet]
    /\ reader = NoReader
    /\ active = NoSessions(db)

TickSessions ==
    /\ clock < MaxSessionTime
    /\ clock' = clock + 1
    /\ active' = Elapse
    /\ UNCHANGED <<db, serial, calls, pc, call, user, task, updateData, ret, reader>>

\* BeginTaskForUser or EndTaskForUser is invoked.
StartSessionCall(p) ==
    /\ pc[p] = "idle"
    /\ calls < MaxSessionCalls
    /\ calls' = calls + 1
    /\ \E c \in SessionCalls : call' = [call EXCEPT ![p] = c]
    /\ pc' = [pc EXCEPT ![p] = "FindUser"]
    /\ UNCHANGED <<db, serial, clock, user, task, updateData, ret, reader, active>>

\* One client that begins and ends sessions, one call after another.
NextSessions ==
    \/ TickSessions
    \/ StartSessionCall(1)
    \/ BeginTaskForUser(1)
    \/ EndTaskForUser(1)

SpecSessions == InitSessions /\ [][NextSessions]_vars

\* ------------------------------------------------- vocabulary of claims ----
UsersWith(d, pasportSeries, pasportNumber) ==
    {r \in d[UserCollection] : Matches(r, PasportFilter(pasportSeries, pasportNumber))}

\* The stored users that the call of slot p names by passport.
Callers(p) ==
    UsersWith(db, call[p].pasportSeries, call[p].pasportNumber)

\* The stored rows of the task that the call of slot p names.
CalledTask(p) ==
    {r \in db[TaskCollection] : r["id"] = <<call[p].taskId>>}

\* This step is the one in which the call of slot p returns.
Returns(p) ==
    pc[p] # "idle" /\ pc'[p] = "idle"

\* This step is the one in which the call of slot p reads the clock.
ReadsClock(p) ==
    pc[p] = "Now" /\ pc'[p] = "Update"

ReplaceRow(d, collection, old, new) ==
    [d EXCEPT ![collection] = (@ \ {old}) \cup {new}]

\* ------------------------------------------------------------------ C1 ----
\* C1: BeginTaskForUser by an existing user on an existing Idle task (calls
\* made one after another) returns nil; its write sets work_from to the
\* clock reading the call took and user_id to the id of the calling user,
\* and changes nothing else: title, description, period, cost, the other
\* rows.
C1_BeginOnIdleTask ==
    [][ /\ (call[1].op = "BeginTaskForUser" /\ ReadsClock(1))
            => updateData'[1]["work_from"] = <<clock>>
        /\ \A r \in CalledTask(1) :
            (/\ call[1].op = "BeginTaskForUser"
             /\ Returns(1)
             /\ r["work_from"] = NULL
             /\ Callers(1) # {})
            => /\ ret'[1].err = "nil"
               /\ updateData[1]["work_from"][1] \in 1..clock
               /\ \E u \in Callers(1) :
                    db' = ReplaceRow(db, TaskCollection, r,
                            [r EXCEPT !["work_from"] = updateData[1]["work_from"],
                                      !["user_id"] = u["id"]])
      ]_vars

C1_Witness ==
    /\ pc[1] = "idle"
    /\ ret[1].call.op = "BeginTaskForUser"
    /\ ret[1].err = "nil"
    /\ \E r \in db[TaskCollection] :
        /\ r["id"] = <<ret[1].call.taskId>>
        /\ r["work_from"] = <<clock>>
        /\ r["user_id"] # NULL
        /\ r["title"] = <<"t1">>

\* ------------------------------------------------------------------ C2 ----
\* C2: BeginTaskForUser on a task that is Active returns the error "task
\* already started" and writes nothing, whichever existing user calls.
C2_BeginOnActiveTask ==
    [][ \A r \in CalledTask(1) :
            (/\ call[1].op = "BeginTaskForUser"
             /\ Returns(1)
             /\ r["work_from"] # NULL
             /\ Callers(1) # {})
            => /\ ret'[1].err = "task already started"
               /\ db' = db
      ]_vars

\* The refused caller is not the user who holds the session.
C2_Witness ==
    /\ pc[1] = "idle"
    /\ ret[1].call.op = "BeginTaskForUser"
    /\ ret[1].err = "task already started"
    /\ \E r \in db[TaskCollection] :
        /\ r["id"] = <<ret[1].call.taskId>>
        /\ r["work_from"] # NULL
        /\ \E u \in UsersWith(db, ret[1].call.pasportSeries, ret[1].call.pasportNumber) :
                u["id"] # r["user_id"]

\* ------------------------------------------------------------------ C3 ----
\* C3: EndTaskForUser on an existing Idle task returns the error "task not
\* started" and writes nothing (cost, work_from and user_id stay).
C3_EndOnIdleTask ==
    [][ \A r \in CalledTask(1) :
            (/\ call[1].op = "EndTaskForUser"
             /\ Returns(1)
             /\ r["work_from"] = NULL
             /\ Callers(1) # {})
            => /\ ret'[1].err = "task not started"
               /\ db' = db
      ]_vars

C3_Witness ==
    /\ pc[1] = "idle"
    /\ ret[1].call.op = "EndTaskForUser"
    /\ ret[1].err = "task not started"
    /\ \E r \in db[TaskCollection] :
        /\ r["id"] = <<ret[1].call.taskId>>
        /\ r["work_from"] = NULL
        /\ r["cost"] # <<0>>

\* ------------------------------------------------------------------ C4 ----
\* C4: EndTaskForUser on an Active task (calls made one after another)
\* returns nil; its write unsets work_from and sets cost to the cost before
\* plus (the clock reading the call took - the work_from before).
C4_EndOnActiveTask ==
    [][ \A r \in CalledTask(1) :
          /\ (call[1].op = "EndTaskForUser" /\ ReadsClock(1) /\ Callers(1) # {})
                => updateData'[1]["cost"] = <<r["cost"][1] + (clock - r["work_from"][1])>>
          /\ (/\ call[1].op = "EndTaskForUser"
              /\ Returns(1)
              /\ r["work_from"] # NULL
              /\ Callers(1) # {})
             => /\ ret'[1].err = "nil"
                /\ db' = ReplaceRow(db, TaskCollection, r,
                            [r EXCEPT !["work_from"] = NULL,
                                      !["cost"] = updateData[1]["cost"]])
      ]_vars

\* A second session has been closed: the cost of the first one is kept.
C4_Witness ==
    /\ pc[1] = "idle"
    /\ ret[1].call.op = "EndTaskForUser"
    /\ ret[1].err = "nil"
    /\ calls = 4
    /\ \E r \in db[TaskCollection] :
        /\ r["id"] = <<ret[1].call.taskId>>
        /\ r["work_from"] = NULL
        /\ r["cost"] = <<1>>

\* ------------------------------------------------------------------ C5 ----
\* C5: in every step of every interleaving the stored cost of a task does
\* not decrease, and it changes only in the write of an EndTaskForUser call
\* on that task, a step that takes the task from Active to Idle.
C5_CostOnlyGrowsOnEnd ==
    [][ \A r \in db[TaskCollection] : \A w \in db'[TaskCollection] :
            (w["id"] = r["id"] /\ w["cost"] # r["cost"])
            => /\ w["cost"][1] > r["cost"][1]
               /\ r["work_from"] # NULL
               /\ w["work_from"] = NULL
               /\ \E p \in Procs :
                    /\ call[p].op = "EndTaskForUser"
                    /\ <<call[p].taskId>> = r["id"]
                    /\ pc[p] = "Update"
                    /\ Returns(p)
      ]_vars

\* ------------------------------------------------------------------ C6 ----
\* C6: the write of BeginTaskForUser is unconditional: a call that read the
\* task as Idle returns nil and stores its own work_from and user_id
\* whatever the row holds by then, so that two concurrent calls on the same
\* Idle task both succeed and the later write replaces the earlier one.
C6_BeginWriteOverwrites ==
    [][ \A p \in Procs :
            (call[p].op = "BeginTaskForUser" /\ pc[p] = "Update" /\ Returns(p))
            => /\ task[p][1].WorkFrom = ZeroTime
               /\ ret'[p].err = "nil"
               /\ \A r \in CalledTask(p) :
                    [r EXCEPT !["work_from"] = updateData[p]["work_from"],
                              !["user_id"] = updateData[p]["user_id"]]
                        \in db'[TaskCollection]
      ]_vars

\* Two calls by different users were in flight together on the Idle task,
\* both got nil, and the row is the one the later write left.
C6_Witness ==
    /\ calls = 3
    /\ \A p \in Procs :
        /\ pc[p] = "idle"
        /\ ret[p].call.op = "BeginTaskForUser"
        /\ ret[p].call.taskId = 1
        /\ ret[p].call.pasportSeries = (IF p = 1 THEN "AA" ELSE "BB")
        /\ ret[p].err = "nil"
    /\ \E r \in db[TaskCollection] :
        /\ r["id"] = <<1>>
        /\ r["work_from"] = <<2>>
        /\ \E u \in UsersWith(db, "AA", "1") : r["user_id"] = u["id"]

\* ------------------------------------------------------------------ C7 ----
\* C7: in every interleaving the task rows stay the same rows and a task's
\* work_from changes only in the write of a BeginTaskForUser call that read
\* the task as unset (the value becomes set) or of an EndTaskForUser call
\* that read it as set (the value becomes unset); no step of CreateUser,
\* DeleteUser, UpdateInfoUser, FindUsersByFilter, FindTasksByFilter or
\* CalculateCostByUser, failing or not, changes it.
C7_OnlyBeginAndEndWriteWorkFrom ==
    [][ /\ {r["id"] : r \in db'[TaskCollection]} = {r["id"] : r \in db[TaskCollection]}
        /\ \A r \in db[TaskCollection] : \A w \in db'[TaskCollection] :
            (w["id"] = r["id"] /\ w["work_from"] # r["work_from"])
            => \E p \in Procs :
                /\ <<call[p].taskId>> = r["id"]
                /\ pc[p] = "Update"
                /\ Returns(p)
                /\ \/ /\ call[p].op = "BeginTaskForUser"
                      /\ task[p][1].WorkFrom = ZeroTime
                      /\ w["work_from"] # NULL
                   \/ /\ call[p].op = "EndTaskForUser"
                      /\ task[p][1].WorkFrom # ZeroTime
                      /\ w["work_from"] = NULL
      ]_vars

\* The user who holds the open session has been deleted and the session is
\* still open.
C7_Witness ==
    /\ \E p \in Procs :
        /\ pc[p] = "idle"
        /\ ret[p].call.op = "DeleteUser"
        /\ ret[p].err = "nil"
    /\ \E r \in db[TaskCollection] :
        /\ r["work_from"] # NULL
        /\ r["user_id"] # NULL
        /\ \A u \in db[UserCollection] : u["id"] # r["user_id"]

\* ------------------------------------------------------------------ C8 ----
\* C8: in every reachable state no two stored user rows have the same
\* (passport series, passport number) pair.
C8_PassportPairUnique ==
    \A u, v \in db[UserCollection] :
        (u["pasport_series"] = v["pasport_series"]
            /\ u["pasport_number"] = v["pasport_number"])
        => u = v

\* ------------------------------------------------------------------ C9 ----
\* C9: when CreateUser(s, n) is called right after a CreateUser(s, n) that
\* returned an id, the second call returns nil and the same id, leaves the
\* store as it was, and exactly one user row has the pair (s, n) afterwards;
\* a row that CreateUser inserts has only its two passport fields populated.
C9_CreateUserIdempotent ==
    [][ /\ (/\ call[1].op = "CreateUser"
            /\ Returns(1)
            /\ ret[1].call = call[1]
            /\ ret[1].err = "nil")
           => /\ ret'[1].err = "nil"
              /\ ret'[1].val = ret[1].val
              /\ db' = db
              /\ Cardinality(UsersWith(db', call[1].pasportSeries, call[1].pasportNumber)) = 1
        /\ (call[1].op = "CreateUser" /\ pc[1] = "Insert" /\ Returns(1))
           => \A u \in db'[UserCollection] \ db[UserCollection] :
                /\ u["id"] = ret'[1].val
                /\ \A k \in UserColumns \ {"id", "pasport_series", "pasport_number"} :
                        u[k] = NULL
      ]_vars

\* ----------------------------------------------------------------- C10 ----
\* C10: when no stored user has the passport pair of the call, each of
\* CalculateCostByUser, BeginTaskForUser, EndTaskForUser, DeleteUser and
\* UpdateInfoUser returns the user-not-found error from its user lookup and
\* leaves both collections unchanged.
C10_MissingUserIsNotFound ==
    [][ \A p \in Procs :
            (/\ call[p].op \in {"CalculateCostByUser", "BeginTaskForUser",
                                "EndTaskForUser", "DeleteUser", "UpdateInfoUser"}
             /\ pc[p] = "FindUser"
             /\ pc'[p] # "FindUser"
             /\ Callers(p) = {})
            => /\ pc'[p] = "idle"
               /\ ret'[p].err = ErrUserNotFound
               /\ db' = db
      ]_vars

\* ----------------------------------------------------------------- C11 ----
\* C11: when the user of the call exists and no task has the id of the
\* call, BeginTaskForUser and EndTaskForUser each return a task-not-found
\* error (the ErrTaskNotFound value or an error with the text "task not
\* found") and the store is unchanged.
C11_MissingTaskIsNotFound ==
    [][ \A p \in Procs :
            (/\ call[p].op \in {"BeginTaskForUser", "EndTaskForUser"}
             /\ pc[p] = "FindTask"
             /\ pc'[p] # "FindTask"
             /\ CalledTask(p) = {})
            => /\ pc'[p] = "idle"
               /\ ret'[p].err \in {ErrTaskNotFound, "task not found"}
               /\ db' = db
      ]_vars

\* ----------------------------------------------------------------- C12 ----
\* C12: the lookup of one user by passport fails with "invalid pasport
\* number" before any store call when the series or the number is empty,
\* fails with "user not found" when no stored user has the pair, and
\* otherwise returns a stored user with that pair (the one user when pairs
\* are unique); it changes nothing.
C12_LookupByPasport ==
    [][ (call[1].op = "HandlerGetUser" /\ pc'[1] # pc[1])
        => /\ db' = db
           /\ IF call[1].pasportSeries = "" \/ call[1].pasportNumber = ""
              THEN pc[1] = "Check" /\ pc'[1] = "idle"
                   /\ ret'[1].err = "invalid pasport number"
              ELSE /\ pc[1] = "Check" => pc'[1] = "FindUser"
                   /\ pc[1] = "FindUser" =>
                        /\ pc'[1] = "idle"
                        /\ IF Callers(1) = {}
                           THEN ret'[1].err = "user not found"
                           ELSE /\ ret'[1].err = "nil"
                                /\ \E u \in Callers(1) : ret'[1].val = <<User(u)>>
      ]_vars

\* The user that CreateUser("BB", "1") made has been looked up.
C12_Witness ==
    /\ pc[1] = "idle"
    /\ ret[1].call.op = "HandlerGetUser"
    /\ ret[1].call.pasportSeries = "BB"
    /\ ret[1].err = "nil"
    /\ ret[1].val[1].PasportSeries = "BB"
    /\ ret[1].val[1].Id = 2

\* ----------------------------------------------------------------- C13 ----
\* C13: a DeleteUser(s, n) that returns nil leaves no user row with the pair
\* (s, n) and leaves every task row as it was (user_id, cost and work_from
\* included); a row with a pair that no row had appears only in the Insert
\* of a CreateUser call for that pair; and a lookup of (s, n) made right
\* after the successful DeleteUser(s, n) answers "user not found".
C13_DeleteRemovesUntilCreate ==
    [][ /\ (call[1].op = "DeleteUser" /\ Returns(1) /\ ret'[1].err = "nil")
            => /\ UsersWith(db', call[1].pasportSeries, call[1].pasportNumber) = {}
               /\ db'[TaskCollection] = db[TaskCollection]
        /\ \A s \in SeriesInputs : \A n \in NumberInputs :
            (UsersWith(db, s, n) = {} /\ UsersWith(db', s, n) # {})
            => /\ call[1].op = "CreateUser"
               /\ call[1].pasportSeries = s
               /\ call[1].pasportNumber = n
               /\ pc[1] = "Insert"
        /\ (/\ call[1].op = "HandlerGetUser"
            /\ Returns(1)
            /\ ret[1].call.op = "DeleteUser"
            /\ ret[1].err = "nil"
            /\ ret[1].call.pasportSeries = call[1].pasportSeries
            /\ ret[1].call.pasportNumber = call[1].pasportNumber)
            => ret'[1].err = "user not found"
      ]_vars

\* ----------------------------------------------------------------- C14 ----
\* C14: an UpdateInfoUser(s, n, fields) that returns nil changes one user
\* row, a row with the pair (s, n): the fields named in fields get the
\* supplied values, its other fields and its id stay, no other row changes;
\* and a lookup of (s, n) made right after it returns a stored user in which
\* every field named in fields has the supplied value.
C14_UpdateRoundTrip ==
    [][ /\ (call[1].op = "UpdateInfoUser" /\ Returns(1) /\ ret'[1].err = "nil")
            => \E u \in Callers(1) :
                    db' = ReplaceRow(db, UserCollection, u, Assign(u, call[1].info))
        /\ (/\ call[1].op = "HandlerGetUser"
            /\ Returns(1)
            /\ ret[1].call.op = "UpdateInfoUser"
            /\ ret[1].err = "nil"
            /\ ret[1].call.pasportSeries = call[1].pasportSeries
            /\ ret[1].call.pasportNumber = call[1].pasportNumber)
            => /\ ret'[1].err = "nil"
               /\ \E u \in db[UserCollection] :
                    /\ ret'[1].val = <<User(u)>>
                    /\ \A k \in DOMAIN ret[1].call.info : u[k] = ret[1].call.info[k]
      ]_vars

\* ----------------------------------------------------------------- C15 ----
\* The task rows that CalculateCostByUser of slot p has to report: those of
\* the user it found whose window is not wholly before begin nor wholly
\* after end (both ends inclusive).
Qualifying(p) ==
    {r \in db[TaskCollection] :
        /\ r["user_id"] = <<user[p][1].Id>>
        /\ ~(r["period_to"][1] < call[p].begin \/ r["period_from"][1] > call[p].end)}

\* C15: for an existing user CalculateCostByUser returns nil and a list with
\* exactly one entry "<id>-<cost truncated to seconds>" for every stored
\* task of that user whose window meets [begin, end], however many there
\* are, and no other entry; it is the empty list when no task qualifies.
C15_CostsOfOverlappingTasks ==
    [][ (call[1].op = "CalculateCostByUser" /\ pc[1] = "Select" /\ Returns(1))
        => /\ ret'[1].err = "nil"
           /\ Len(ret'[1].val) = Cardinality(Qualifying(1))
           /\ {ret'[1].val[i] : i \in 1..Len(ret'[1].val)}
                = {CostEntry(r) : r \in Qualifying(1)}
           /\ db' = db
      ]_vars

\* The range [20,25] and the windows [10,20], [25,30], [5,12]: the first two
\* touch an end of the range and are reported, the third is not: "1-9s",
\* "2-10s".
C15_Witness ==
    /\ pc[1] = "idle"
    /\ ret[1].call.op = "CalculateCostByUser"
    /\ ret[1].call.begin = 20 /\ ret[1].call.end = 25
    /\ {r["id"][1] : r \in db[TaskCollection]} = {1, 2, 3, 4}
    /\ ret[1].err = "nil"
    /\ ret[1].val = << <<49, 45, 57, 115>>, <<50, 45, 49, 48, 115>> >>

\* ----------------------------------------------------------------- C16 ----
\* C16: in the list CalculateCostByUser returns, the text after the first
\* '-' of an entry is never smaller, as a string, than that of the entry
\* after it.
C16_DescendingByDurationString ==
    [][ (call[1].op = "CalculateCostByUser" /\ pc[1] = "Select" /\ Returns(1))
        => \A i \in 1..(Len(ret'[1].val) - 1) :
                ~StringGreater(AfterDash(ret'[1].val[i + 1]), AfterDash(ret'[1].val[i]))
      ]_vars

\* 9 s, 1 min and 10 s come out as "1-9s", "3-1m0s", "2-10s": the order of
\* the strings, not of the durations.
C16_Witness ==
    /\ pc[1] = "idle"
    /\ ret[1].call.op = "CalculateCostByUser"
    /\ ret[1].err = "nil"
    /\ ret[1].val = << <<49, 45, 57, 115>>, <<51, 45, 49, 109, 48, 115>>,
                       <<50, 45, 49, 48, 115>> >>

\* ----------------------------------------------------------------- C17 ----
\* How many rows a query returns when n rows match.
PageSize(n, limit, offset) ==
    IF n <= offset THEN 0
    ELSE IF limit = 0 \/ n - offset < limit THEN n - offset
    ELSE limit

\* The result list val is made of one mapped entity for each of as many
\* different matching rows as the query returns.
MappedPage(val, rows, limit, offset, Entity(_)) ==
    /\ Len(val) = PageSize(Cardinality(rows), limit, offset)
    /\ \E f \in [1..Len(val) -> rows] :
        /\ \A i, j \in 1..Len(val) : i # j => f[i] # f[j]
        /\ \A i \in 1..Len(val) : val[i] = Entity(f[i])

C18_StoreFailureIsWrapped ==
    [][ StoreFails(1)
        => /\ ret'[1].err = Join(ErrStorage, StoreError)
           /\ db' = db
      ]_vars

\* ----------------------------------------------------------------- C19 ----
\* C19: the answer to every call that returned to its handler has status
\* 200 when the service returned nil, a 5xx status when it returned a
\* storage failure, and a 4xx status when it returned any other error
\* (invalid input, absent entity, task already started / not started); the
\* same holds for the status that sendResponseOrError chooses.
C19_StatusByErrorKind ==
    \A p \in Procs :
        (ret[p] # NoRet /\ ret[p].err \notin {PanicIndex, PanicTarget})
        => \A st \in {ret[p].status, sendResponseOrError(ret[p].err)} :
            IF ret[p].err = "nil" THEN st = StatusOK
            ELSE IF ErrorsIs(ret[p].err, ErrStorage) THEN st \in 500..599
            ELSE st \in 400..499

\* ----------------------------------------------------------------- C20 ----
\* Two calls are on different targets: two BeginTaskForUser/EndTaskForUser
\* calls name different tasks; two CreateUser/UpdateInfoUser/DeleteUser
\* calls name different passport pairs; a call of the first group and one
\* of the second name different passport pairs.
OnTasks(c) == c.op \in {"BeginTaskForUser", "EndTaskForUser"}

OnUsers(c) == c.op \in {"CreateUser", "UpdateInfoUser", "DeleteUser"}

SamePasport(c, d) ==
    c.pasportSeries = d.pasportSeries /\ c.pasportNumber = d.pasportNumber

DifferentTargets(c, d) ==
    /\ (OnTasks(c) /\ OnTasks(d)) => c.taskId # d.taskId
    /\ (OnUsers(c) /\ (OnUsers(d) \/ OnTasks(d))) => ~SamePasport(c, d)
    /\ (OnUsers(d) /\ OnTasks(c)) => ~SamePasport(c, d)

\* C20: a call that runs together with calls on different targets only
\* returns what it returns in a serial execution; in particular, the store
\* working, it does not end in a failure of one of its store calls, which no
\* serial execution has.
C20_DifferentTargetsDoNotInterfere ==
    [][ \A p \in Procs :
            (Returns(p) /\ \A q \in Procs \ {p} : DifferentTargets(call[p], call[q]))
            => ret'[p].err \notin {PanicTarget, Join(ErrStorage, StoreError)}
      ]_vars

\* ----------------------------------------------------------------- C21 ----
\* C21: user_id of a task is written only by BeginTaskForUser, together
\* with work_from: the write of a Begin call stores the id of the user the
\* call resolved and the clock reading it took in the row of its task, and
\* no other step of any operation (EndTaskForUser included) changes the
\* user_id of any task. So a task's user_id is always the one its latest
\* Begin write stored, or its initial value.
C21_UserIdWrittenOnlyByBegin ==
    [][ /\ \A r \in db[TaskCollection] : \A w \in db'[TaskCollection] :
            (w["id"] = r["id"] /\ w["user_id"] # r["user_id"])
            => \E p \in Procs :
                /\ call[p].op = "BeginTaskForUser"
                /\ <<call[p].taskId>> = r["id"]
                /\ pc[p] = "Update"
                /\ Returns(p)
        /\ \A p \in Procs :
            (call[p].op = "BeginTaskForUser" /\ pc[p] = "Update" /\ Returns(p))
            => \A w \in db'[TaskCollection] :
                w["id"] = <<call[p].taskId>>
                => /\ w["user_id"] = <<user[p][1].Id>>
                   /\ w["work_from"] = updateData[p]["work_from"]
                   /\ w["work_from"] # NULL
      ]_vars

\* The user "BB" opened the latest session of the task and another user's
\* EndTaskForUser closed it: user_id is still the id of "BB".
C21_Witness ==
    /\ \E p \in Procs :
        /\ pc[p] = "idle"
        /\ ret[p].call.op = "EndTaskForUser"
        /\ ret[p].call.pasportSeries = "AA"
        /\ ret[p].call.taskId = 1
        /\ ret[p].err = "nil"
    /\ \E r \in db[TaskCollection] :
        /\ r["id"] = <<1>>
        /\ r["work_from"] = NULL
        /\ \E u \in UsersWith(db, "BB", "1") : r["user_id"] = u["id"]
        /\ \A u \in UsersWith(db, "AA", "1") : r["user_id"] # u["id"]

\* ----------------------------------------------------------------- C22 ----
\* C22: in every reachable state every stored user has a non-empty passport
\* series and a non-empty passport number, CreateUser being called directly
\* or through HandlerCreateUser.
C22_PasportNeverEmpty ==
    \A u \in db[UserCollection] :
        /\ u["pasport_series"] \notin {NULL, <<"">>}
        /\ u["pasport_number"] \notin {NULL, <<"">>}

\* ----------------------------------------------------------------- C23 ----
\* C23: the write of an UpdateInfoUser call that HandlerUpdateUser made
\* leaves the passport series and the passport number of every stored user
\* as they were, whatever the request body.
C23_HandlerUpdateKeepsPasport ==
    [][ (call[1].op = "UpdateInfoUser" /\ pc[1] = "Update" /\ Returns(1))
        => \A u \in db[UserCollection] : \E w \in db'[UserCollection] :
            /\ w["id"] = u["id"]
            /\ w["pasport_series"] = u["pasport_series"]
            /\ w["pasport_number"] = u["pasport_number"]
      ]_vars

\* ----------------------------------------------------------------- C24 ----
\* The key is in the record and holds a value of the type the field is read
\* in.
WellTyped(record, key) ==
    key \in DOMAIN record /\ record[key] # NULL /\ Len(record[key]) = 1

UserFieldKeys ==
    [Id |-> "id", PasportSeries |-> "pasport_series", PasportNumber |-> "pasport_number",
     Surname |-> "surname", Name |-> "name", Patronymic |-> "patronymic",
     Address |-> "address"]

TaskFieldKeys ==
    [Id |-> "id", Title |-> "title", Description |-> "description",
     PeriodFrom |-> "period_from", PeriodTo |-> "period_to", UserId |-> "user_id",
     Cost |-> "cost", WorkFrom |-> "work_from"]

ZeroUser ==
    [Id |-> 0, PasportSeries |-> "", PasportNumber |-> "", Surname |-> "",
     Name |-> "", Patronymic |-> "", Address |-> ""]

ZeroTask ==
    [Id |-> 0, Title |-> "", Description |-> "", PeriodFrom |-> ZeroTime,
     PeriodTo |-> ZeroTime, UserId |-> 0, Cost |-> 0, WorkFrom |-> ZeroTime]

\* C24: mapping a record to a User or a Task never fails: the list
\* operations return nil and one entity per record, each field of which is
\* the value of its key when the record has the key with a value of the
\* field's type, and the zero value of the field when the key is missing,
\* null or of another dynamic type; so a task record whose work_from is null
\* or missing maps to an Idle task and one whose cost is null to cost 0.
C24_MappingIsTotal ==
    [][ \A p \in Procs :
        (call[p].op \in {"FindUsersByFilter", "FindTasksByFilter"} /\ Returns(p))
        => LET users == call[p].op = "FindUsersByFilter"
               keys  == IF users THEN UserFieldKeys ELSE TaskFieldKeys
               zero  == IF users THEN ZeroUser ELSE ZeroTask
               val   == ret'[p].val
           IN /\ ret'[p].err = "nil"
              /\ \E rs \in Select(db, IF users THEN UserCollection ELSE TaskCollection,
                                  call[p].info, call[p].limit, call[p].offset) :
                    /\ Len(val) = Len(rs)
                    /\ \A i \in 1..Len(rs) :
                        /\ DOMAIN val[i] = DOMAIN keys
                        /\ \A f \in DOMAIN keys :
                            val[i][f] = IF WellTyped(rs[i], keys[f])
                                        THEN rs[i][keys[f]][1] ELSE zero[f]
                        /\ (~users /\ ~WellTyped(rs[i], "work_from")) => NotStarted(val[i])
                        /\ (~users /\ ~WellTyped(rs[i], "cost")) => val[i].Cost = 0
      ]_vars

\* Task records with a missing work_from, a null one and one of another type
\* have been mapped, along with a cost of another type.
C24_Witness ==
    /\ pc[1] = "idle"
    /\ ret[1].call.op = "FindTasksByFilter"
    /\ ret[1].err = "nil"
    /\ Len(ret[1].val) = 4
    /\ \A i \in 1..4 :
        /\ ret[1].val[i].Id = 1 => (ret[1].val[i].WorkFrom = 1 /\ ret[1].val[i].Cost = 3)
        /\ ret[1].val[i].Id # 1 => NotStarted(ret[1].val[i])
        /\ ret[1].val[i].Id = 3 => (ret[1].val[i].Cost = 0 /\ ret[1].val[i].UserId = 0)
        /\ ret[1].val[i].Id = 4 => (ret[1].val[i].Cost = 4 /\ ret[1].val[i].PeriodTo = ZeroTime)
    /\ \E r \in db[TaskCollection] : "work_from" \notin DOMAIN r
    /\ \E r \in db[TaskCollection] : "work_from" \in DOMAIN r /\ r["work_from"] = NULL
    /\ \E r \in db[TaskCollection] : "work_from" \in DOMAIN r /\ Len(r["work_from"]) = 2

\* ----------------------------------------------------------------- C25 ----
\* The Update that the call of slot p is about to make: its collection, its
\* filter and its fields.
UpdateArgs(p) ==
    IF call[p].op = "UpdateInfoUser"
    THEN <<UserCollection, CallFilter(p), call[p].info>>
    ELSE <<TaskCollection, IdFilter(call[p].taskId), updateData[p]>>

\* C25: an Update assigns the given fields in every row of the collection
\* that satisfies all the equality predicates of the filter and leaves the
\* other fields of these rows, the other rows and the other collection as
\* they were; the Update of UpdateInfoUser so changes every user row that
\* has the passport pair.
C25_UpdateAssignsMatchingRows ==
    [][ \A p \in Procs :
        (pc[p] = "Update" /\ Returns(p))
        => LET collection == UpdateArgs(p)[1]
               filter     == UpdateArgs(p)[2]
               fields     == UpdateArgs(p)[3]
           IN /\ \A c \in DOMAIN db : c # collection => db'[c] = db[c]
              /\ \A w \in db'[collection] : \E r \in db[collection] : r["id"] = w["id"]
              /\ \A r \in db[collection] :
                    IF \A k \in DOMAIN filter : r[k] = filter[k]
                    THEN \E w \in db'[collection] :
                            /\ w["id"] = r["id"]
                            /\ \A k \in DOMAIN fields : w[k] = fields[k]
                            /\ \A k \in DOMAIN r \ DOMAIN fields : w[k] = r[k]
                    ELSE r \in db'[collection]
      ]_vars

\* Two user rows had the passport pair of an UpdateInfoUser call and both
\* have the surname it set.
C25_Witness ==
    /\ pc[1] = "idle"
    /\ ret[1].call.op = "UpdateInfoUser"
    /\ ret[1].call.info = [surname |-> <<"Ivanov">>]
    /\ ret[1].err = "nil"
    /\ \E u, v \in UsersWith(db, ret[1].call.pasportSeries, ret[1].call.pasportNumber) :
        /\ u["id"] # v["id"]
        /\ u["surname"] = <<"Ivanov">>
        /\ v["surname"] = <<"Ivanov">>
        /\ u["name"] # v["name"]

\* ----------------------------------------------------------------- C26 ----
\* C26: Next returns true and takes one row as long as rows remain, and
\* false from then on; Read returns the current row after a Next that
\* returned true, and an error when no Next returned true before it: before
\* the first Next and after Next returned false.
C26_NextReadProtocol ==
    [][ /\ ReaderNext
            => /\ reader'.last.ok = (reader.rows # <<>> /\ ~reader.closed)
               /\ reader'.last.ok
                    => /\ reader'.rows = Tail(reader.rows)
                       /\ reader'.values = <<Head(reader.rows)>>
               /\ ~reader'.last.ok => reader'.closed
        /\ ReaderRead
            => IF reader.values # <<>> /\ ~reader.closed
               THEN /\ reader'.last.ok
                    /\ reader'.last.record[1].Fields = reader.values[1]
               ELSE /\ ~reader'.last.ok
                    /\ reader'.last.err \notin {"nil", PanicIndex}
      ]_vars

\* ----------------------------------------------------------------- C27 ----
\* C27: with calls made one after another, the stored cost of a task is its
\* initial cost plus the time of every completed session: a successful Begin
\* stores the clock reading it took as work_from and leaves cost; the next
\* successful End adds (the clock reading it took - that work_from) to cost
\* and unsets work_from; every other step, and every call that fails, leaves
\* the task rows as they were.
C27_CostIsSumOfSessions ==
    [][ LET write == pc[1] = "Update" /\ Returns(1) IN
        /\ ~write => db'[TaskCollection] = db[TaskCollection]
        /\ (Returns(1) /\ ret'[1].err # "nil") => db' = db
        /\ \A r \in CalledTask(1) :
            /\ (call[1].op = "BeginTaskForUser" /\ ReadsClock(1))
                => updateData'[1]["work_from"] = <<clock>>
            /\ (call[1].op = "EndTaskForUser" /\ ReadsClock(1))
                => updateData'[1]["cost"] = <<get(r, "cost", 0) + (clock - r["work_from"][1])>>
            /\ (call[1].op = "BeginTaskForUser" /\ write)
                => /\ ret'[1].err = "nil"
                   /\ db'[TaskCollection] = (db[TaskCollection] \ {r}) \cup
                        {[r EXCEPT !["work_from"] = updateData[1]["work_from"],
                                   !["user_id"] = updateData[1]["user_id"]]}
            /\ (call[1].op = "EndTaskForUser" /\ write)
                => /\ ret'[1].err = "nil"
                   /\ db'[TaskCollection] = (db[TaskCollection] \ {r}) \cup
                        {[r EXCEPT !["work_from"] = NULL,
                                   !["cost"] = updateData[1]["cost"]]}
      ]_vars

\* Task 1 started with cost 5; after five calls, the three ticks since the
\* start all spent in sessions that were completed, its cost is 8.
C27_Witness ==
    /\ pc[1] = "idle"
    /\ calls = 5
    /\ clock = 4
    /\ ret[1].call.op = "EndTaskForUser"
    /\ ret[1].err = "nil"
    /\ \E r \in db[TaskCollection] :
        /\ r["id"] = <<1>>
        /\ r["work_from"] = NULL
        /\ r["cost"] = <<8>>

\* ----------------------------------------------------------------- C28 ----
\* C28: in every interleaving the stored cost of a task is at most its
\* initial cost plus the time the task has spent in sessions: time in which
\* the task was Idle is never added to its cost.
C28_CostWithinSessionTime ==
    \A r \in db[TaskCollection] : \A t \in InitialTasks :
        t["id"] = r["id"]
        => get(r, "cost", 0) <= get(t, "cost", 0) + active[r["id"][1]]

\* ----------------------------------------------------------------- C29 ----
\* C29: in every interleaving, when an EndTaskForUser call makes its write
\* the row of its task still has the work_from the call read: the call
\* closes the session it observed, never one that a later BeginTaskForUser
\* opened, and never writes to a task that is Idle by then.
C29_EndClosesObservedSession ==
    [][ \A p \in Procs :
        (call[p].op = "EndTaskForUser" /\ pc[p] = "Update" /\ Returns(p))
        => \A r \in CalledTask(p) :
            /\ r["work_from"] # NULL
            /\ r["work_from"] = <<task[p][1].WorkFrom>>
      ]_vars

\* ----------------------------------------------------------------- C30 ----
\* C30: EndTaskForUser does not check who holds the session: called by any
\* existing user on an Active task (calls made one after another) it returns
\* nil, adds the time since work_from to cost, unsets work_from and leaves
\* user_id, the id of the user who began the session, as it was.
C30_EndByAnyUser ==
    [][ \A r \in CalledTask(1) :
        /\ (/\ call[1].op = "EndTaskForUser"
            /\ ReadsClock(1)
            /\ Callers(1) # {})
           => updateData'[1]["cost"] = <<get(r, "cost", 0) + (clock - r["work_from"][1])>>
        /\ (/\ call[1].op = "EndTaskForUser"
            /\ Returns(1)
            /\ r["work_from"] # NULL
            /\ Callers(1) # {})
           => /\ ret'[1].err = "nil"
              /\ \E w \in db'[TaskCollection] :
                    /\ w["id"] = r["id"]
                    /\ w["user_id"] = r["user_id"]
                    /\ w["work_from"] = NULL
                    /\ w["cost"] = updateData[1]["cost"]
      ]_vars

\* The user "BB" has ended, a tick after its start, the session that the
\* user "AA" began: cost has grown and user_id is the id of "AA".
C30_Witness ==
    /\ pc[1] = "idle"
    /\ ret[1].call.op = "EndTaskForUser"
    /\ ret[1].call.pasportSeries = "BB"
    /\ ret[1].err = "nil"
    /\ \E r \in db[TaskCollection] :
        /\ r["id"] = <<ret[1].call.taskId>>
        /\ r["work_from"] = NULL
        /\ r["cost"] = <<1>>
        /\ \E u \in UsersWith(db, "AA", "1") : r["user_id"] = u["id"]
        /\ \E u \in UsersWith(db, "BB", "1") : r["user_id"] # u["id"]

====
